---------------------------- MODULE Spec2Model ----------------------------
(***************************************************************************)
(* Aesop: a backward-chaining A* planner over world states.                *)
(*   Aesop/source/AesopWorldState.cpp  the world-state model               *)
(*   Aesop/source/AesopPlanner.cpp     the sliced planner                  *)
(* The declarations of AesopPlanner.h, AesopWorldState.h and of the Action *)
(* classes are not part of the sources at hand; what the model needs of    *)
(* them (the fields of a search node and its ordering, the shape of a      *)
(* Fact, an Operation and an Action) follows the specification's data      *)
(* model and the uses the two source files make of them.                   *)
(***************************************************************************)
EXTENDS Integers, Sequences, FiniteSets, TLC

(***************************************************************************)
(* Bounds of the model.                                                    *)
(***************************************************************************)
\* Number of setter calls (setStart / setGoal / setActions) in a behaviour.
MaxSets == 2
\* The largest PVal of the states and operations the world-state operations
\* are applied to on their own.
MaxVal == 2
\* The largest number of parameters, and of objects in the pool, the
\* bindings are built for on their own.
MaxParams == 3
MaxObjects == 3
\* The number of explored nodes up to which a search inside plan() is
\* followed.
MaxExplored == 4

(***************************************************************************)
(* Values.                                                                 *)
(***************************************************************************)
\* A null pointer (mStart, mGoal, mActions are pointers to caller-owned data;
\* the model holds them as indices into the tables below, 0 being NULL).
NULL == 0
\* A pointer that was never assigned: Planner() builds a temporary Planner
\* and leaves its own mStart, mGoal, mActions and mConstants as they were.
\* It is not NULL and addresses nothing the caller owns.
Wild == -1
\* The name of "no action" (IntermediateState::ac of the root node).
NoAction == "NULL"

\* ConditionType and EffectType, as used by the switch statements.
ConditionTypes ==
  {"NoCondition", "IsSet", "IsUnset", "Equals", "NotEqual",
   "Less", "Greater", "LessEqual", "GreaterEqual"}
EffectTypes == {"NoEffect", "Set", "Unset", "Increment", "Decrement"}

(***************************************************************************)
(* WorldState: a mapping from Fact (name, arguments) to PVal.  A state is  *)
(* a function whose domain is the set of facts that are set.               *)
(***************************************************************************)
EmptyState == [k \in {} |-> 0]

\* WorldState::get: whether the fact is mapped (the value is ws[f] then).
Has(ws, f) == f \in DOMAIN ws

\* WorldState::_set
SetFact(ws, f, val) ==
  [k \in (DOMAIN ws) \cup {f} |-> IF k = f THEN val ELSE ws[k]]

\* WorldState::_unset
UnsetFact(ws, f) == [k \in (DOMAIN ws) \ {f} |-> ws[k]]

\* consistent(PVal val, ConditionType cond, PVal cval).  The NotEqual case
\* tests val != cval and fails on it, as the Equals case does.
ConsistentCond(val, cond, cval) ==
  CASE cond = "IsUnset"      -> FALSE
    [] cond = "Equals"       -> ~(val # cval)
    [] cond = "NotEqual"     -> ~(val # cval)
    [] cond = "Less"         -> ~(val >= cval)
    [] cond = "Greater"      -> ~(val <= cval)
    [] cond = "LessEqual"    -> ~(val > cval)
    [] cond = "GreaterEqual" -> ~(val < cval)
    [] OTHER                 -> TRUE

\* consistent(PVal val, EffectType eff, PVal eval)
ConsistentEff(val, eff, eval) ==
  CASE eff = "Set"       -> val = eval
    [] eff = "Unset"     -> FALSE
    [] eff = "Increment" -> ~(val # eval + 1)
    [] eff = "Decrement" -> ~(val # eval - 1)
    [] OTHER             -> TRUE

\* fillOp: a condition or effect index > -1 takes its value from the binding.
FillOp(op, params) ==
  [op EXCEPT !.cval = IF op.cidx > -1 THEN params[op.cidx + 1] ELSE @,
             !.eval = IF op.eidx > -1 THEN params[op.eidx + 1] ELSE @]

\* fillFact: an argument whose index is not -1 is taken from the binding.
FillFact(f, params) ==
  [f EXCEPT !.args = [i \in DOMAIN f.args |->
                        IF f.indices[i] # -1 THEN params[f.indices[i] + 1]
                        ELSE f.args[i]]]

\* The operation and the key of a clause under a binding: filled only when
\* the binding is not empty (if(params.size())).
ClauseOp(cl, params) == IF Len(params) > 0 THEN FillOp(cl.op, params) ELSE cl.op
ClauseKey(cl, params) ==
  LET f == IF Len(params) > 0 THEN FillFact(cl.fact, params) ELSE cl.fact
  IN <<f.name, f.args>>

\* Action::checkSpecialConditions: the action's own predicate over a binding.
CheckSpecialConditions(ac, params) == params \notin ac.rejects

\* WorldState::preMatch
PreMatch(ws, ac, params) ==
  /\ CheckSpecialConditions(ac, params)
  /\ \A i \in DOMAIN ac.ops :
       LET op == ClauseOp(ac.ops[i], params)
           f  == ClauseKey(ac.ops[i], params)
       IN \/ ac.ops[i].op.ctype = "NoCondition"
          \/ IF Has(ws, f) THEN ConsistentCond(ws[f], op.ctype, op.cval)
                           ELSE op.ctype = "IsUnset"

\* One clause of postMatch: "bad" (return false), "ok" (consistencies++) or
\* "skip" (the fact is not mapped, or the clause has neither effect nor
\* condition).
PostClause(ws, cl, params) ==
  LET op == ClauseOp(cl, params)
      f  == ClauseKey(cl, params)
  IN IF op.etype = "NoEffect"
     THEN IF op.ctype # "NoCondition" /\ Has(ws, f)
          THEN IF ConsistentCond(ws[f], op.ctype, op.cval) THEN "ok" ELSE "bad"
          ELSE "skip"
     ELSE IF Has(ws, f)
          THEN IF ConsistentEff(ws[f], op.etype, op.eval) THEN "ok" ELSE "bad"
          ELSE "skip"

\* postMatch that lets one consistent clause decide: an inconsistent clause
\* is passed over instead of returning false.
PostMatchAnyClause(ws, ac, params) ==
  /\ CheckSpecialConditions(ac, params)
  /\ \E i \in DOMAIN ac.ops : PostClause(ws, ac.ops[i], params) = "ok"

\* WorldState::postMatch
PostMatch(ws, ac, params) ==
  /\ CheckSpecialConditions(ac, params)
  /\ \A i \in DOMAIN ac.ops : PostClause(ws, ac.ops[i], params) # "bad"
  /\ \E i \in DOMAIN ac.ops : PostClause(ws, ac.ops[i], params) = "ok"

\* WorldState::applyForward: the body is empty but for updateHash().
ApplyForward(ws, ac, params) == ws

\* applyReverse that undoes effects only: a condition forces nothing on the
\* predecessor.
ReverseClauseEffectsOnly(ws, cl, params) ==
  LET op == ClauseOp(cl, params)
      f  == ClauseKey(cl, params)
  IN IF op.ctype = "NoCondition"
     THEN CASE op.etype = "Set"       -> UnsetFact(ws, f)
            [] op.etype = "Unset"     -> SetFact(ws, f, op.eval)
            [] op.etype = "Increment" -> SetFact(ws, f, op.eval - 1)
            [] op.etype = "Decrement" -> SetFact(ws, f, op.eval + 1)
            [] OTHER                  -> ws
     ELSE ws

\* One clause of applyReverse.
ReverseClause(ws, cl, params) ==
  LET op == ClauseOp(cl, params)
      f  == ClauseKey(cl, params)
  IN IF op.ctype = "NoCondition"
     THEN CASE op.etype = "Set"       -> UnsetFact(ws, f)
            [] op.etype = "Unset"     -> SetFact(ws, f, op.eval)
            [] op.etype = "Increment" -> SetFact(ws, f, op.eval - 1)
            [] op.etype = "Decrement" -> SetFact(ws, f, op.eval + 1)
            [] OTHER                  -> ws
     ELSE CASE op.ctype = "IsSet"   -> SetFact(ws, f, 0)
            [] op.ctype = "Equals"  -> SetFact(ws, f, op.cval)
            [] op.ctype = "IsUnset" -> UnsetFact(ws, f)
            [] OTHER                -> ws

\* WorldState::applyReverse: the clauses in the action's iteration order.
RECURSIVE ReverseFrom(_, _, _, _)
ReverseFrom(ws, ac, params, i) ==
  IF i > Len(ac.ops) THEN ws
  ELSE ReverseFrom(ReverseClause(ws, ac.ops[i], params), ac, params, i + 1)

ApplyReverse(ws, ac, params) == ReverseFrom(ws, ac, params, 1)

\* Fact::operator<: structural over the name, then the arguments.
RECURSIVE ArgsLess(_, _, _)
ArgsLess(a, b, i) ==
  IF i > Len(a) \/ i > Len(b) THEN Len(a) < Len(b)
  ELSE IF a[i] # b[i] THEN a[i] < b[i]
  ELSE ArgsLess(a, b, i + 1)

FactLess(f, g) == IF f[1] # g[1] THEN f[1] < g[1] ELSE ArgsLess(f[2], g[2], 1)

\* The keys of a std::map<Fact, PVal> in the order its iterator visits them.
RECURSIVE KeysInOrder(_)
KeysInOrder(keys) ==
  IF keys = {} THEN <<>>
  ELSE LET least == CHOOSE f \in keys : \A g \in keys \ {f} : FactLess(f, g)
       IN <<least>> \o KeysInOrder(keys \ {least})

\* The loop of IntersectMaps over the two iterators il and ir: the entries
\* (key, left value, right value) inserted into the result.
RECURSIVE IntersectFrom(_, _, _, _, _, _)
IntersectFrom(left, right, lk, rk, il, ir) ==
  IF il > Len(lk) \/ ir > Len(rk) THEN <<>>
  ELSE IF FactLess(lk[il], rk[ir])
       THEN IntersectFrom(left, right, lk, rk, il + 1, ir)
  ELSE IF FactLess(rk[ir], lk[il])
       THEN IntersectFrom(left, right, lk, rk, il, ir + 1)
  ELSE <<[key |-> lk[il], first |-> left[lk[il]], second |-> right[rk[ir]]]>>
       \o IntersectFrom(left, right, lk, rk, il + 1, ir + 1)

\* IntersectMaps in which both iterators advance at every turn: the entries
\* are paired by position.
IntersectMapsByPosition(left, right) ==
  LET lk == KeysInOrder(DOMAIN left)
      rk == KeysInOrder(DOMAIN right)
      n  == IF Len(lk) < Len(rk) THEN Len(lk) ELSE Len(rk)
  IN [i \in 1..n |->
        [key |-> lk[i], first |-> left[lk[i]], second |-> right[rk[i]]]]

\* IntersectMaps: the entries of the facts mapped by both states.
IntersectMaps(left, right) ==
  IntersectFrom(left, right, KeysInOrder(DOMAIN left),
                KeysInOrder(DOMAIN right), 1, 1)

\* The loop of compStart over the common entries.
RECURSIVE ScoreFrom(_, _)
ScoreFrom(common, i) ==
  IF i > Len(common) THEN 0
  ELSE (IF common[i].first # common[i].second THEN 1 ELSE 0)
       + ScoreFrom(common, i + 1)

\* WorldState::compStart: the number of common facts with different values.
CompStart(ws1, ws2) == ScoreFrom(IntersectMaps(ws1, ws2), 1)

\* WorldState::comp: returns at its second statement.
Comp(ws1, ws2) == IF ws1 = ws2 THEN 0 ELSE 1

(***************************************************************************)
(* The data the planner is run on: facts at(x), a few caller-owned world   *)
(* states and action sets.  A pointer to one of them is its index in the   *)
(* table (NULL is no index).                                               *)
(***************************************************************************)
\* The key of the fact at(x) in a world state.
At(x) == <<1, <<x>>>>

\* The Fact at(x) of an action's clause, and at(<parameter i>).
FactAt(x) == [name |-> 1, args |-> <<x>>, indices |-> <<-1>>]
FactAtParam(i) == [name |-> 1, args |-> <<0>>, indices |-> <<i>>]

\* An Operation whose values are not taken from the binding.
Op(ctype, cval, etype, eval) ==
  [ctype |-> ctype, cval |-> cval, cidx |-> -1,
   etype |-> etype, eval |-> eval, eidx |-> -1]

Clause(f, op) == [fact |-> f, op |-> op]

Action(name, ops, nparams, cost) ==
  [name |-> name, ops |-> ops, nparams |-> nparams, cost |-> cost,
   rejects |-> {}]

\* at(1): 1 -> 2, at cost 1 and at cost 2; at(1): 2 -> 3.
Drive == Action("drive", <<Clause(FactAt(1), Op("Equals", 1, "Set", 2))>>, 0, 1)
Walk  == Action("walk",  <<Clause(FactAt(1), Op("Equals", 1, "Set", 2))>>, 0, 2)
Ride  == Action("ride",  <<Clause(FactAt(1), Op("Equals", 2, "Set", 3))>>, 0, 1)
\* at(x): 1 -> 2 for a parameter x.
DriveX == Action("driveX",
                 <<Clause(FactAtParam(0), Op("Equals", 1, "Set", 2))>>, 1, 1)
\* at(2) := 1, unconditionally.
Mark == Action("mark", <<Clause(FactAt(2), Op("NoCondition", 0, "Set", 1))>>, 0, 1)
\* at(x) := v for parameters x and v.
Put == Action("put",
              <<Clause(FactAtParam(0),
                       [Op("NoCondition", 0, "Set", 0) EXCEPT !.eidx = 1])>>,
              2, 1)
\* drive with a second clause, on at(2): requires it set, changes nothing.
DriveKeep ==
  Action("driveKeep",
         <<Clause(FactAt(1), Op("Equals", 1, "Set", 2)),
           Clause(FactAt(2), Op("IsSet", 0, "NoEffect", 0))>>, 0, 1)

\* at(1) stays 2: requires the value it sets.
Wait == Action("wait", <<Clause(FactAt(1), Op("Equals", 2, "Set", 2))>>, 0, 1)

Catalogue == {Drive, Walk, Ride, DriveX, Mark, Put, DriveKeep, Wait}
ActionNamed(name) == CHOOSE a \in Catalogue : a.name = name

\* An entry of an ActionSet: the action (NoAction: a null pointer) and its
\* preference weight.
Entry(ac) == [ac |-> ac.name, pref |-> 1]
NullEntry == [ac |-> NoAction, pref |-> 1]

StartTable ==
  << At(1) :> 1,
     (At(1) :> 1) @@ (At(2) :> 1),
     At(1) :> 2 >>

GoalTable ==
  << At(1) :> 2,
     At(1) :> 3,
     At(2) :> 2,
     (At(1) :> 2) @@ (At(2) :> 1) >>

ActionSetTable ==
  << <<>>,
     <<Entry(Drive)>>,
     <<Entry(Walk), Entry(Drive)>>,
     <<Entry(Drive), Entry(Walk)>>,
     <<Entry(Drive), Entry(Ride)>>,
     <<NullEntry, Entry(Ride)>>,
     <<Entry(Wait), Entry(Drive), Entry(Ride)>>,
     <<Entry(DriveX)>>,
     <<Entry(Mark), Entry(Walk), Entry(Drive)>>,
     <<Entry(Put)>>,
     <<Entry(DriveKeep)>>,
     <<Entry(Wait)>>,
     <<Entry(Wait), Entry(Mark), Entry(Walk), Entry(Drive)>> >>

PoolTable == << <<>>, <<1, 2>> >>

\* The constants state a Planner may be given: none or the caller's one.
Constants == {NULL, 1}

Starts  == {NULL} \cup DOMAIN StartTable
Goals   == {NULL} \cup DOMAIN GoalTable
ActSets == {NULL} \cup DOMAIN ActionSetTable

(***************************************************************************)
(* The frontier's heap: std::push_heap, std::pop_heap and std::make_heap   *)
(* with std::greater<IntermediateState>, as the library computes them.     *)
(* Positions are counted from 0, as in the library.                        *)
(***************************************************************************)
\* IntermediateState::operator> and operator<: by F alone.
Greater(a, b) == a.F > b.F
Less(a, b) == a.F < b.F

Elem(h, i) == h[i + 1]
Put0(h, i, v) == [h EXCEPT ![i + 1] = v]

RECURSIVE PushHeapFrom(_, _, _, _)
PushHeapFrom(h, hole, top, value) ==
  IF hole > top /\ Greater(Elem(h, (hole - 1) \div 2), value)
  THEN PushHeapFrom(Put0(h, hole, Elem(h, (hole - 1) \div 2)),
                    (hole - 1) \div 2, top, value)
  ELSE Put0(h, hole, value)

\* push_heap: the last element is sifted up.
PushHeap(h) == PushHeapFrom(h, Len(h) - 1, 0, h[Len(h)])

RECURSIVE SiftDown(_, _, _)
SiftDown(h, hole, len) ==
  IF hole < (len - 1) \div 2
  THEN LET c  == 2 * (hole + 1)
           c2 == IF Greater(Elem(h, c), Elem(h, c - 1)) THEN c - 1 ELSE c
       IN SiftDown(Put0(h, hole, Elem(h, c2)), c2, len)
  ELSE IF len % 2 = 0 /\ hole = (len - 2) \div 2
       THEN <<Put0(h, hole, Elem(h, 2 * (hole + 1) - 1)), 2 * (hole + 1) - 1>>
       ELSE <<h, hole>>

\* __adjust_heap over the first len elements.
AdjustHeap(h, hole, len, value) ==
  LET d == SiftDown(h, hole, len)
  IN PushHeapFrom(d[1], d[2], hole, value)

\* pop_heap: the best element is moved to the back.
PopHeap(h) ==
  IF Len(h) > 1
  THEN AdjustHeap(Put0(h, Len(h) - 1, h[1]), 0, Len(h) - 1, h[Len(h)])
  ELSE h

RECURSIVE MakeHeapFrom(_, _)
MakeHeapFrom(h, parent) ==
  LET h2 == AdjustHeap(h, parent, Len(h), Elem(h, parent))
  IN IF parent = 0 THEN h2 ELSE MakeHeapFrom(h2, parent - 1)

\* No reordering after an entry was overwritten.
MakeHeapOmitted(h) == h

\* make_heap
MakeHeap(h) == IF Len(h) < 2 THEN h ELSE MakeHeapFrom(h, (Len(h) - 2) \div 2)

(***************************************************************************)
(* Planner: the search.  The intermediate data of a Planner are held in a  *)
(* record sr = [open, closed, id, success, inplace]: mOpenList,            *)
(* mClosedList, mId, mSuccess, and (history, not program state) the number *)
(* of frontier entries overwritten in place since the last init.           *)
(***************************************************************************)
\* IntermediateState(): a node as its constructor leaves it.
NewNode ==
  [state |-> EmptyState, ID |-> 0, G |-> 0, H |-> 0, F |-> 0,
   ac |-> NoAction, params |-> <<>>, prev |-> 0]

\* The value read at mObjects[i] when i is not an index of the vector.
OutOfRange == -1
ObjectAt(objects, i) == IF i < Len(objects) THEN objects[i + 1] ELSE OutOfRange

\* "Increment and overflow": the carry loop over the counters objs, entered
\* with j the last slot and obj the value that slot was incremented to; obj
\* is not read again inside the loop.
RECURSIVE Carry(_, _, _, _)
Carry(objs, j, obj, n) ==
  IF obj = n /\ j > 0
  THEN Carry([objs EXCEPT ![j + 1] = 0, ![j] = @ + 1], j - 1, obj, n)
  ELSE objs

NextCounters(objs, n) ==
  LET k  == Len(objs)
      o1 == [objs EXCEPT ![k] = @ + 1]
  IN Carry(o1, k - 1, o1[k], n)

\* The permutations' counters, in the order the loop produces them.
RECURSIVE CountersFrom(_, _, _, _)
CountersFrom(objs, n, i, permutations) ==
  IF i >= permutations THEN <<>>
  ELSE <<objs>> \o CountersFrom(NextCounters(objs, n), n, i + 1, permutations)

\* paramset params of updateSlicedPlan: the bindings tried for an action of
\* nparams parameters.
Bindings(nparams, objects) ==
  IF nparams > 0 /\ Len(objects) > 0
  THEN LET cs == CountersFrom([j \in 1..nparams |-> 0], Len(objects), 0,
                              Len(objects) ^ nparams)
       IN [i \in DOMAIN cs |->
             [j \in 1..nparams |-> ObjectAt(objects, cs[i][j])]]
  ELSE << <<>> >>

\* The position of the first frontier entry holding the state (0: none).
FirstWith(open, st) ==
  IF \E i \in DOMAIN open : open[i].state = st
  THEN CHOOSE i \in DOMAIN open :
         /\ open[i].state = st
         /\ \A j \in 1..(i - 1) : open[j].state # st
  ELSE 0

\* The node attemptIntermediate builds for the state st derived from s.
Derived(sr, s, ac, pref, plist, start, st) ==
  [NewNode EXCEPT !.state = st,
                  !.H = Comp(st, start),
                  !.G = s.G + ac.cost * pref,
                  !.F = s.G + ac.cost * pref + Comp(st, start),
                  !.ac = ac.name,
                  !.params = plist,
                  !.prev = Len(sr.closed) - 1]

\* attemptIntermediate that never overwrites a frontier entry: the first
\* derivation of a state is kept.
AttemptIntermediateKeepFirst(sr, s, ac, pref, plist, start) ==
  IF ~PostMatch(s.state, ac, plist) THEN sr
  ELSE
    LET st == ApplyReverse(s.state, ac, plist)
        n  == Derived(sr, s, ac, pref, plist, start, st)
    IN IF \E i \in DOMAIN sr.closed : st = sr.closed[i].state THEN sr
       ELSE IF FirstWith(sr.open, st) # 0 THEN sr
            ELSE [sr EXCEPT !.open = PushHeap(Append(@, [n EXCEPT !.ID = sr.id])),
                            !.id = @ + 1]

\* attemptIntermediate without the search of the closed list.
AttemptIntermediateUnpruned(sr, s, ac, pref, plist, start) ==
  IF ~PostMatch(s.state, ac, plist) THEN sr
  ELSE
    LET st  == ApplyReverse(s.state, ac, plist)
        n   == Derived(sr, s, ac, pref, plist, start, st)
        oli == FirstWith(sr.open, st)
    IN IF oli # 0
       THEN IF Less(n, sr.open[oli])
            THEN [sr EXCEPT !.open = MakeHeap([@ EXCEPT ![oli] = n]),
                            !.inplace = @ + 1]
            ELSE sr
       ELSE [sr EXCEPT !.open = PushHeap(Append(@, [n EXCEPT !.ID = sr.id])),
                       !.id = @ + 1]

\* attemptIntermediate without the search of the open list: every candidate
\* whose state is not explored is pushed.
AttemptIntermediatePushAll(sr, s, ac, pref, plist, start) ==
  IF ~PostMatch(s.state, ac, plist) THEN sr
  ELSE
    LET st == ApplyReverse(s.state, ac, plist)
        n  == Derived(sr, s, ac, pref, plist, start, st)
    IN IF \E i \in DOMAIN sr.closed : st = sr.closed[i].state THEN sr
       ELSE [sr EXCEPT !.open = PushHeap(Append(@, [n EXCEPT !.ID = sr.id])),
                       !.id = @ + 1]

\* Planner::attemptIntermediate
AttemptIntermediate(sr, s, ac, pref, plist, start) ==
  IF ~PostMatch(s.state, ac, plist) THEN sr
  ELSE
    LET st == ApplyReverse(s.state, ac, plist)
        n  == Derived(sr, s, ac, pref, plist, start, st)
        oli == FirstWith(sr.open, st)
    IN IF \E i \in DOMAIN sr.closed : st = sr.closed[i].state THEN sr
       ELSE IF oli # 0
            THEN IF Less(n, sr.open[oli])
                 THEN [sr EXCEPT !.open = MakeHeap([@ EXCEPT ![oli] = n]),
                                 !.inplace = @ + 1]
                 ELSE sr
            ELSE [sr EXCEPT !.open = PushHeap(Append(@, [n EXCEPT !.ID = sr.id])),
                            !.id = @ + 1]

\* The loop over the bindings of one action.
RECURSIVE AttemptEach(_, _, _, _, _, _, _)
AttemptEach(sr, s, ac, pref, params, i, start) ==
  IF i > Len(params) THEN sr
  ELSE AttemptEach(AttemptIntermediate(sr, s, ac, pref, params[i], start),
                   s, ac, pref, params, i + 1, start)

\* The loop over the action set; a null action is passed over.
RECURSIVE ExpandFrom(_, _, _, _, _, _)
ExpandFrom(sr, s, actions, objects, start, i) ==
  IF i > Len(actions) THEN sr
  ELSE IF actions[i].ac = NoAction
       THEN ExpandFrom(sr, s, actions, objects, start, i + 1)
       ELSE LET ac == ActionNamed(actions[i].ac)
            IN ExpandFrom(AttemptEach(sr, s, ac, actions[i].pref,
                                      Bindings(ac.nparams, objects), 1, start),
                          s, actions, objects, start, i + 1)

\* Planner::updateSlicedPlan: the intermediate data afterwards and the value
\* returned (cont: there is more to do).
UpdateSlicedPlan(sr, start, actions, objects) ==
  IF sr.open = <<>> THEN [sr |-> sr, cont |-> FALSE]
  ELSE
    LET h   == PopHeap(sr.open)
        s   == h[Len(h)]
        sr1 == [sr EXCEPT !.open = SubSeq(h, 1, Len(h) - 1),
                          !.closed = Append(@, s)]
    IN IF CompStart(s.state, start) = 0
       THEN [sr |-> [sr1 EXCEPT !.success = TRUE], cont |-> FALSE]
       ELSE [sr |-> ExpandFrom(sr1, s, actions, objects, start, 1),
             cont |-> TRUE]

\* initSlicedPlan that gives the root mOpenList.back().ID = ++mId.
InitSlicedPlanPreIncrement(goal) ==
  [open |-> <<[NewNode EXCEPT !.state = goal, !.ID = 1]>>,
   closed |-> <<>>, id |-> 1, success |-> FALSE, inplace |-> 0]

\* Planner::initSlicedPlan, once the pointers are validated.
InitSlicedPlan(goal) ==
  [open |-> <<[NewNode EXCEPT !.state = goal, !.ID = 0]>>,
   closed |-> <<>>, id |-> 1, success |-> FALSE, inplace |-> 0]

\* A walk that steps to the entry before (i = i - 1) instead of the
\* predecessor.
RECURSIVE WalkBackEachEntry(_, _, _)
WalkBackEachEntry(plan, closed, i) ==
  IF i = 0 THEN plan
  ELSE WalkBackEachEntry(Append(plan, [ac |-> closed[i + 1].ac,
                                       params |-> closed[i + 1].params]),
                         closed, i - 1)

\* The walk of finaliseSlicedPlan up the closed list, from position i.
RECURSIVE WalkBack(_, _, _)
WalkBack(plan, closed, i) ==
  IF i = 0 THEN plan
  ELSE WalkBack(Append(plan, [ac |-> closed[i + 1].ac,
                              params |-> closed[i + 1].params]),
                closed, closed[i + 1].prev)

\* finaliseSlicedPlan without mPlan.clear(): the entries are added to the
\* plan of the call before.
FinalisePlanUncleared(plan, success, closed) ==
  IF success THEN WalkBack(plan, closed, Len(closed) - 1) ELSE plan

\* Planner::finaliseSlicedPlan: mPlan afterwards, for a closed list that is
\* not empty when the search succeeded.
FinalisePlan(plan, success, closed) ==
  LET cleared == <<>>
  IN IF success THEN WalkBack(cleared, closed, Len(closed) - 1) ELSE cleared

(***************************************************************************)
(* The Planner object and its callers.                                     *)
(***************************************************************************)
VARIABLES
  mStart, mGoal, mActions,  \* pointers: indices into the tables, or NULL
  mConstants,               \* pointer to the constants state; never read
  mObjects,                 \* the object pool
  mSuccess, mId, mOpenList, mClosedList, mPlan,
  pc,        \* where plan() stands: "idle", "updating", "finalising";
             \* "crashed" once the process has ended abnormally
  ret,       \* what the last call returned: "none", "true", "false"
  lastCall,  \* the last call made: "none", "plan", "init", "update", "finalise"
  \* history, not program state:
  inplace,   \* frontier entries overwritten in place since the last init
  tied,      \* since the last init, a node was popped while another frontier
             \* entry had the same F
  nsets,     \* setter calls made
  lastCfg,   \* <<mStart, mGoal, mActions>> at the last call of plan()
  first,     \* the first plan() call that returned: its configuration, result
  rerun,     \* the last plan() call was made after that one, with the same
             \* configuration
  \* the world-state operations on their own: the input and the result
  fin, fout

vars ==
  <<mStart, mGoal, mActions, mConstants, mObjects, mSuccess, mId, mOpenList, mClosedList,
    mPlan, pc, ret, lastCall, inplace, tied, nsets, lastCfg, first, rerun,
    fin, fout>>

config == <<mStart, mGoal, mActions, mConstants, mObjects>>
pure == <<fin, fout>>

Cfg == <<mStart, mGoal, mActions>>
NoCfg == <<NULL, NULL, NULL>>

\* The intermediate data as the record the search operators work on.
SR ==
  [open |-> mOpenList, closed |-> mClosedList, id |-> mId,
   success |-> mSuccess, inplace |-> inplace]

Store(sr) ==
  /\ mOpenList' = sr.open
  /\ mClosedList' = sr.closed
  /\ mId' = sr.id
  /\ mSuccess' = sr.success
  /\ inplace' = sr.inplace

\* Planner::Planner(start, goal, con, set), and the objects added to it.
PlannerInit ==
  /\ mStart \in Starts
  /\ mGoal \in Goals
  /\ mActions \in ActSets
  /\ mConstants \in Constants
  /\ mObjects \in {PoolTable[i] : i \in DOMAIN PoolTable}
  /\ mSuccess = FALSE
  /\ mId = 0
  /\ mOpenList = <<>>
  /\ mClosedList = <<>>
  /\ mPlan = <<>>
  /\ pc = "idle"
  /\ ret = "none"
  /\ lastCall = "none"
  /\ inplace = 0
  /\ tied = FALSE
  /\ nsets = 0
  /\ lastCfg = NoCfg
  /\ first = [set |-> FALSE, cfg |-> NoCfg, ret |-> "none", plan |-> <<>>]
  /\ rerun = FALSE

Init == PlannerInit /\ fin = <<>> /\ fout = <<>>

\* The validation of initSlicedPlan.
Bound == mStart # NULL /\ mGoal # NULL /\ mActions # NULL

\* What *ptr may be read as: the table entry a pointer set by the caller
\* addresses; nothing for a null pointer.  The read of a pointer that was
\* never assigned ends the process (see BadRead) or yields what the memory
\* holds, taken here to be a copy of the table's first entry.
ReadsOf(ptr, table) ==
  IF ptr = NULL THEN {}
  ELSE IF ptr = Wild THEN {i \in DOMAIN table : i = 1}
  ELSE {ptr}

\* Whether updateSlicedPlan returns without reading mActions: the open list
\* is empty, or the node popped passes the test for completeness against
\* the start state.
Completes(start) ==
  \/ mOpenList = <<>>
  \/ LET h == PopHeap(mOpenList)
     IN CompStart(h[Len(h)].state, start) = 0

\* The action sets *mActions may be read as by an update that read the
\* start state as StartTable[i] (NULL: mActions is not read).
ActionReads(i) ==
  IF Completes(StartTable[i]) THEN {NULL}
  ELSE ReadsOf(mActions, ActionSetTable)

\* updateSlicedPlan with *mStart read as StartTable[i] and *mActions as
\* ActionSetTable[j].
UpdateWith(i, j) ==
  UpdateSlicedPlan(SR, StartTable[i],
                   IF j = NULL THEN <<>> ELSE ActionSetTable[j], mObjects)

Record(r, plan) ==
  IF first.set THEN first
  ELSE [set |-> TRUE, cfg |-> Cfg, ret |-> r, plan |-> plan]

\* Whether the node updateSlicedPlan is about to pop ties on F with another
\* frontier entry.
TieAtPop ==
  \E i, j \in DOMAIN mOpenList : i # j /\ mOpenList[i].F = mOpenList[j].F
     /\ \A k \in DOMAIN mOpenList : mOpenList[i].F <= mOpenList[k].F

\* Planner::setStart, setGoal, setActions, between two calls.
SetStart ==
  /\ pc = "idle" /\ nsets < MaxSets
  /\ \E v \in Starts \ {mStart} : mStart' = v
  /\ nsets' = nsets + 1
  /\ UNCHANGED <<mGoal, mActions, mConstants, mObjects, mSuccess, mId, mOpenList,
                 mClosedList, mPlan, pc, ret, lastCall, inplace, tied,
                 lastCfg, first, rerun, pure>>

SetGoal ==
  /\ pc = "idle" /\ nsets < MaxSets
  /\ \E v \in Goals \ {mGoal} : mGoal' = v
  /\ nsets' = nsets + 1
  /\ UNCHANGED <<mStart, mActions, mConstants, mObjects, mSuccess, mId, mOpenList,
                 mClosedList, mPlan, pc, ret, lastCall, inplace, tied,
                 lastCfg, first, rerun, pure>>

SetActions ==
  /\ pc = "idle" /\ nsets < MaxSets
  /\ \E v \in ActSets \ {mActions} : mActions' = v
  /\ nsets' = nsets + 1
  /\ UNCHANGED <<mStart, mGoal, mConstants, mObjects, mSuccess, mId, mOpenList,
                 mClosedList, mPlan, pc, ret, lastCall, inplace, tied,
                 lastCfg, first, rerun, pure>>

\* Planner::plan, up to its loop: initSlicedPlan, and the return of false
\* when it fails.
PlanCall ==
  /\ pc = "idle"
  /\ lastCall' = "plan"
  /\ lastCfg' = Cfg
  /\ rerun' = (first.set /\ first.cfg = Cfg)
  /\ IF Bound
     THEN /\ \E g \in ReadsOf(mGoal, GoalTable) :
               Store(InitSlicedPlan(GoalTable[g]))
          /\ tied' = FALSE
          /\ pc' = "updating"
          /\ ret' = "none"
          /\ UNCHANGED first
     ELSE /\ pc' = "idle"
          /\ ret' = "false"
          /\ first' = Record("false", mPlan)
          /\ UNCHANGED <<mSuccess, mId, mOpenList, mClosedList, inplace, tied>>
  /\ UNCHANGED <<config, mPlan, nsets, pure>>

\* Planner::plan, one turn of while(updateSlicedPlan(ctx)).
PlanUpdate ==
  /\ pc = "updating"
  /\ mOpenList = <<>> \/ Len(mClosedList) < MaxExplored
  /\ \E i \in ReadsOf(mStart, StartTable) : \E j \in ActionReads(i) :
       LET r == UpdateWith(i, j)
       IN /\ Store(r.sr)
          /\ pc' = IF r.cont THEN "updating" ELSE "finalising"
  /\ tied' = (tied \/ TieAtPop)
  /\ UNCHANGED <<config, mPlan, ret, lastCall, nsets, lastCfg, first, rerun,
                 pure>>

\* Planner::plan, after the loop: finaliseSlicedPlan and return success().
PlanFinalise ==
  /\ pc = "finalising"
  /\ mPlan' = FinalisePlan(mPlan, mSuccess, mClosedList)
  /\ mOpenList' = <<>>
  /\ mClosedList' = <<>>
  /\ ret' = IF mSuccess THEN "true" ELSE "false"
  /\ first' = Record(ret', mPlan')
  /\ pc' = "idle"
  /\ UNCHANGED <<config, mSuccess, mId, lastCall, inplace, tied, nsets,
                 lastCfg, rerun, pure>>

Next ==
  \/ SetStart
  \/ SetGoal
  \/ SetActions
  \/ PlanCall
  \/ PlanUpdate
  \/ PlanFinalise

\* A host that calls plan(), and rebinds start, goal and actions in between.
Spec == Init /\ [][Next]_vars

\* A host that calls plan() on the Planner as constructed.
NextPlan ==
  \/ PlanCall
  \/ PlanUpdate
  \/ PlanFinalise

\* ENABLED <<PlanUpdate>>_vars as a state predicate: inside the loop of
\* plan() the start state can be read (initSlicedPlan validated mStart),
\* and every turn of the loop changes mClosedList or leaves the loop.
PlanUpdateEnabled ==
  /\ pc = "updating"
  /\ mOpenList = <<>> \/ Len(mClosedList) < MaxExplored
  /\ ReadsOf(mStart, StartTable) # {}

\* plan() is sequential code: once called it goes on through its loop and
\* to its return, so a step of it that stays possible is taken.  The first
\* fairness condition is WF_vars(PlanUpdate), with its ENABLED written out
\* as PlanUpdateEnabled.
SpecPlan ==
  /\ Init /\ [][NextPlan]_vars
  /\ ([]<>~PlanUpdateEnabled) \/ ([]<><<PlanUpdate>>_vars)
  /\ WF_vars(PlanFinalise)

(***************************************************************************)
(* A host that drives the sliced methods itself, in any order.             *)
(***************************************************************************)
\* Planner::initSlicedPlan
HostInit ==
  /\ pc = "idle"
  /\ lastCall' = "init"
  /\ IF Bound
     THEN /\ \E g \in ReadsOf(mGoal, GoalTable) :
               Store(InitSlicedPlan(GoalTable[g]))
          /\ tied' = FALSE
          /\ ret' = "true"
     ELSE /\ ret' = "false"
          /\ UNCHANGED <<mSuccess, mId, mOpenList, mClosedList, inplace, tied>>
  /\ UNCHANGED <<config, mPlan, pc, nsets, lastCfg, first, rerun, pure>>

\* Planner::updateSlicedPlan
HostUpdate ==
  /\ pc = "idle"
  /\ lastCall' = "update"
  /\ IF mOpenList = <<>>
     THEN /\ ret' = "false"
          /\ UNCHANGED <<mSuccess, mId, mOpenList, mClosedList, inplace>>
     ELSE \E i \in ReadsOf(mStart, StartTable) : \E j \in ActionReads(i) :
            LET r == UpdateWith(i, j)
            IN /\ Store(r.sr)
               /\ ret' = IF r.cont THEN "true" ELSE "false"
  /\ tied' = (tied \/ TieAtPop)
  /\ UNCHANGED <<config, mPlan, pc, nsets, lastCfg, first, rerun, pure>>

\* Planner::finaliseSlicedPlan, when the walk starts inside the closed list
\* or is not made.
HostFinalise ==
  /\ pc = "idle"
  /\ ~(mSuccess /\ mClosedList = <<>>)
  /\ lastCall' = "finalise"
  /\ mPlan' = FinalisePlan(mPlan, mSuccess, mClosedList)
  /\ mOpenList' = <<>>
  /\ mClosedList' = <<>>
  /\ ret' = "none"
  /\ UNCHANGED <<config, mSuccess, mId, pc, inplace, tied, nsets, lastCfg,
                 first, rerun, pure>>

\* What a walk that reads outside the closed list may leave in mPlan.
GarbagePlans == {<<>>, <<[ac |-> "garbage", params |-> <<>>]>>}

\* Planner::finaliseSlicedPlan with mSuccess set and the closed list empty:
\* i starts at size() - 1 of an empty vector, and mClosedList[i] is read
\* outside it.  The process ends there, or goes on with whatever was read.
HostFinaliseOutside ==
  /\ pc = "idle"
  /\ mSuccess /\ mClosedList = <<>>
  /\ lastCall' = "finalise"
  /\ \E crash \in BOOLEAN, plan \in GarbagePlans :
       /\ pc' = IF crash THEN "crashed" ELSE "idle"
       /\ mPlan' = plan
  /\ mOpenList' = <<>>
  /\ mClosedList' = <<>>
  /\ ret' = "none"
  /\ UNCHANGED <<config, mSuccess, mId, inplace, tied, nsets, lastCfg,
                 first, rerun, pure>>

NextSliced ==
  \/ HostInit
  \/ HostUpdate
  \/ HostFinalise
  \/ HostFinaliseOutside

SpecSliced == Init /\ [][NextSliced]_vars

(***************************************************************************)
(* A host that constructs the Planner either way, rebinds its pointers     *)
(* between any two calls, and calls the sliced methods in any order.       *)
(***************************************************************************)
\* What a member that was never assigned may hold.
IndeterminatePointers == {NULL, Wild}
IndeterminateIds == {0, 1}

\* Planner::Planner(): the members of the temporary are set, its own are not.
DefaultInit ==
  /\ mStart \in IndeterminatePointers
  /\ mGoal \in IndeterminatePointers
  /\ mActions \in IndeterminatePointers
  /\ mConstants \in IndeterminatePointers
  /\ mObjects \in {PoolTable[i] : i \in DOMAIN PoolTable}
  /\ mSuccess \in BOOLEAN
  /\ mId \in IndeterminateIds
  /\ mOpenList = <<>>
  /\ mClosedList = <<>>
  /\ mPlan = <<>>
  /\ pc = "idle"
  /\ ret = "none"
  /\ lastCall = "none"
  /\ inplace = 0
  /\ tied = FALSE
  /\ nsets = 0
  /\ lastCfg = NoCfg
  /\ first = [set |-> FALSE, cfg |-> NoCfg, ret |-> "none", plan |-> <<>>]
  /\ rerun = FALSE

InitHost == (PlannerInit \/ DefaultInit) /\ fin = <<>> /\ fout = <<>>

\* Planner::setConstants
SetConstants ==
  /\ pc = "idle" /\ nsets < MaxSets
  /\ \E v \in Constants \ {mConstants} : mConstants' = v
  /\ nsets' = nsets + 1
  /\ UNCHANGED <<mStart, mGoal, mActions, mObjects, mSuccess, mId, mOpenList,
                 mClosedList, mPlan, pc, ret, lastCall, inplace, tied,
                 lastCfg, first, rerun, pure>>

\* A pointer that is null or was never assigned is dereferenced.
BadPointer(ptr) == ptr = NULL \/ ptr = Wild

\* initSlicedPlan copies *mGoal once the three pointers are not null.
InitReadsBadly == Bound /\ BadPointer(mGoal)

\* updateSlicedPlan reads *mStart for the node it popped, and *mActions
\* when that node does not pass the test for completeness.
UpdateReadsBadly ==
  /\ mOpenList # <<>>
  /\ \/ BadPointer(mStart)
     \/ /\ BadPointer(mActions)
        /\ \E i \in ReadsOf(mStart, StartTable) : ~Completes(StartTable[i])

\* The process ends in a call of initSlicedPlan or updateSlicedPlan that
\* dereferences such a pointer.
BadRead ==
  /\ pc = "idle"
  /\ InitReadsBadly \/ UpdateReadsBadly
  /\ pc' = "crashed"
  /\ ret' = "none"
  /\ UNCHANGED <<config, mSuccess, mId, mOpenList, mClosedList, mPlan,
                 lastCall, inplace, tied, nsets, lastCfg, first, rerun, pure>>

NextHost ==
  \/ SetStart
  \/ SetGoal
  \/ SetActions
  \/ SetConstants
  \/ HostInit
  \/ HostUpdate
  \/ HostFinalise
  \/ HostFinaliseOutside
  \/ BadRead

SpecHost == InitHost /\ [][NextHost]_vars

(***************************************************************************)
(* The world-state operations on their own: one state, one action and one  *)
(* binding, and what the operations make of them.                          *)
(***************************************************************************)
Vals == 0..MaxVal
WSFacts == {At(1), At(2)}
WSStates == UNION {[d -> Vals] : d \in SUBSET WSFacts}

\* Every operation over the values, and those with an effect and no condition.
WSOps ==
  [ctype : ConditionTypes, cval : Vals, cidx : {-1},
   etype : EffectTypes, eval : Vals, eidx : {-1}]
WSEffects == {op \in WSOps : op.ctype = "NoCondition" /\ op.cval = 0
                              /\ op.etype # "NoEffect"}

\* put(x, v) whose special conditions reject the binding (1, 2).
PutPicky == [Put EXCEPT !.name = "putPicky", !.rejects = {<<1, 2>>}]

\* Actions of one clause on at(1), of two effect clauses on at(1) and at(2),
\* of a condition on at(1) and any clause on at(2), and put(x, v).
WSConditions == {op \in WSOps : op.etype = "NoEffect" /\ op.eval = 0
                                 /\ op.ctype \in {"IsSet", "Equals", "NotEqual"}}
WSActions ==
  {Action("one", <<Clause(FactAt(1), op)>>, 0, 1) : op \in WSOps}
  \cup {Action("two", <<Clause(FactAt(1), o1), Clause(FactAt(2), o2)>>, 0, 1) :
          o1 \in WSEffects \cup WSConditions, o2 \in WSEffects \cup WSConditions}
  \cup {Put, PutPicky}

WSInputs ==
  {in \in [ws : WSStates, ac : WSActions, params : {<<>>, <<1, 2>>, <<2, 1>>}] :
     Len(in.params) = in.ac.nparams}

InitWS ==
  /\ mStart = NULL /\ mGoal = NULL /\ mActions = NULL /\ mObjects = <<>>
  /\ mConstants = NULL
  /\ mSuccess = FALSE /\ mId = 0
  /\ mOpenList = <<>> /\ mClosedList = <<>> /\ mPlan = <<>>
  /\ pc = "idle" /\ ret = "none" /\ lastCall = "none"
  /\ inplace = 0 /\ tied = FALSE /\ nsets = 0 /\ lastCfg = NoCfg
  /\ first = [set |-> FALSE, cfg |-> NoCfg, ret |-> "none", plan |-> <<>>]
  /\ rerun = FALSE
  /\ fin \in WSInputs
  /\ fout = [done |-> FALSE]

\* The operations applied to the input.
WorldStateOps ==
  /\ ~fout.done
  /\ fout' = [done |-> TRUE,
              pre |-> PreMatch(fin.ws, fin.ac, fin.params),
              post |-> PostMatch(fin.ws, fin.ac, fin.params),
              reversed |-> ApplyReverse(fin.ws, fin.ac, fin.params),
              roundtrip |-> ApplyForward(ApplyReverse(fin.ws, fin.ac, fin.params),
                                         fin.ac, fin.params)]
  /\ UNCHANGED <<config, mSuccess, mId, mOpenList, mClosedList, mPlan, pc, ret,
                 lastCall, inplace, tied, nsets, lastCfg, first, rerun, fin>>

NextWS == WorldStateOps

SpecWS == InitWS /\ [][NextWS]_vars

(***************************************************************************)
(* compStart on its own: two world states and the score.                   *)
(***************************************************************************)
\* Facts of two names, so that the order of the keys is by name and by
\* argument.
CmpFacts == {At(1), At(2), <<2, <<1>>>>}
CmpStates == UNION {[d -> Vals] : d \in SUBSET CmpFacts}

InitCmp ==
  /\ mStart = NULL /\ mGoal = NULL /\ mActions = NULL /\ mObjects = <<>>
  /\ mConstants = NULL
  /\ mSuccess = FALSE /\ mId = 0
  /\ mOpenList = <<>> /\ mClosedList = <<>> /\ mPlan = <<>>
  /\ pc = "idle" /\ ret = "none" /\ lastCall = "none"
  /\ inplace = 0 /\ tied = FALSE /\ nsets = 0 /\ lastCfg = NoCfg
  /\ first = [set |-> FALSE, cfg |-> NoCfg, ret |-> "none", plan |-> <<>>]
  /\ rerun = FALSE
  /\ fin \in [a : CmpStates, b : CmpStates]
  /\ fout = [done |-> FALSE]

\* WorldState::compStart(a, b)
CompareStates ==
  /\ ~fout.done
  /\ fout' = [done |-> TRUE, score |-> CompStart(fin.a, fin.b)]
  /\ UNCHANGED <<config, mSuccess, mId, mOpenList, mClosedList, mPlan, pc, ret,
                 lastCall, inplace, tied, nsets, lastCfg, first, rerun, fin>>

NextCmp == CompareStates

SpecCmp == InitCmp /\ [][NextCmp]_vars

(***************************************************************************)
(* The bindings of updateSlicedPlan on their own: a number of parameters,  *)
(* an object pool, and the paramset built for them.                        *)
(***************************************************************************)
\* The pools: the sequences without repetition of up to MaxObjects objects.
BindPools ==
  UNION {{o \in [1..n -> 1..MaxObjects] :
            \A i, j \in 1..n : i # j => o[i] # o[j]} : n \in 0..MaxObjects}

\* What a read outside mObjects may yield: an object of the pool's kind or
\* another value.
GarbageObjects == {OutOfRange, 1}

\* The paramset with the values read outside the pool drawn as g.
Garbled(params, g) ==
  [i \in DOMAIN params |->
     [j \in DOMAIN params[i] |->
        IF params[i][j] = OutOfRange THEN g ELSE params[i][j]]]

ReadsOutside(params) ==
  \E i \in DOMAIN params : \E j \in DOMAIN params[i] : params[i][j] = OutOfRange

InitBind ==
  /\ mStart = NULL /\ mGoal = NULL /\ mActions = NULL /\ mObjects = <<>>
  /\ mConstants = NULL
  /\ mSuccess = FALSE /\ mId = 0
  /\ mOpenList = <<>> /\ mClosedList = <<>> /\ mPlan = <<>>
  /\ pc = "idle" /\ ret = "none" /\ lastCall = "none"
  /\ inplace = 0 /\ tied = FALSE /\ nsets = 0 /\ lastCfg = NoCfg
  /\ first = [set |-> FALSE, cfg |-> NoCfg, ret |-> "none", plan |-> <<>>]
  /\ rerun = FALSE
  /\ fin \in [nparams : 0..MaxParams, objects : BindPools]
  /\ fout = [done |-> FALSE]

\* The paramset of one action in updateSlicedPlan.  A read outside the pool
\* yields some value, or ends the process.
BuildBindings ==
  /\ ~fout.done
  /\ LET params == Bindings(fin.nparams, fin.objects)
     IN \E g \in GarbageObjects :
        \E crash \in IF ReadsOutside(params) THEN BOOLEAN ELSE {FALSE} :
          fout' = [done |-> TRUE, params |-> Garbled(params, g),
                   outside |-> ReadsOutside(params), crashed |-> crash]
  /\ UNCHANGED <<config, mSuccess, mId, mOpenList, mClosedList, mPlan, pc, ret,
                 lastCall, inplace, tied, nsets, lastCfg, first, rerun, fin>>

NextBind == BuildBindings

SpecBind == InitBind /\ [][NextBind]_vars

(***************************************************************************)
(* The execution of a plan, as the specification defines an action's       *)
(* forward application (applyForward itself applies nothing).              *)
(***************************************************************************)
\* The effect of one clause applied forward: set, unset, increment, decrement.
ForwardClause(ws, cl, params) ==
  LET op == ClauseOp(cl, params)
      f  == ClauseKey(cl, params)
  IN CASE op.etype = "Set"       -> SetFact(ws, f, op.eval)
       [] op.etype = "Unset"     -> UnsetFact(ws, f)
       [] op.etype = "Increment" -> IF Has(ws, f) THEN SetFact(ws, f, ws[f] + 1)
                                                  ELSE ws
       [] op.etype = "Decrement" -> IF Has(ws, f) THEN SetFact(ws, f, ws[f] - 1)
                                                  ELSE ws
       [] OTHER                  -> ws

RECURSIVE ForwardFrom(_, _, _, _)
ForwardFrom(ws, ac, params, i) ==
  IF i > Len(ac.ops) THEN ws
  ELSE ForwardFrom(ForwardClause(ws, ac.ops[i], params), ac, params, i + 1)

ForwardEffects(ws, ac, params) == ForwardFrom(ws, ac, params, 1)

\* The state agrees with the goal on every fact of the goal.
AgreesOn(ws, goal) == \A f \in DOMAIN goal : Has(ws, f) /\ ws[f] = goal[f]

\* The entries of the plan from the i-th on can be executed in order from
\* ws, each passing preMatch where it is applied, and end in the goal.
RECURSIVE Executes(_, _, _, _)
Executes(ws, plan, i, goal) ==
  IF i > Len(plan) THEN AgreesOn(ws, goal)
  ELSE /\ PreMatch(ws, ActionNamed(plan[i].ac), plan[i].params)
       /\ Executes(ForwardEffects(ws, ActionNamed(plan[i].ac), plan[i].params),
                   plan, i + 1, goal)

(***************************************************************************)
(* The claims.                                                             *)
(***************************************************************************)
\* plan() has returned, and start, goal and actions are still those it ran on.
Returned == pc = "idle" /\ lastCall = "plan" /\ ret # "none" /\ lastCfg = Cfg

\* C1: whenever plan() returns success, the plan can be executed from the
\* start state, every action passing preMatch in the state it is applied to,
\* and the state it ends in agrees with the goal on every fact of the goal.
C1_PlanTransformsStartIntoGoal ==
  (Returned /\ ret = "true") =>
     Executes(StartTable[mStart], mPlan, 1, GoalTable[mGoal])

\* C2: when start and goal share no fact and the goal is not empty, plan()
\* returns failure and the plan is empty.
C2_DisjointFactSpacesFail ==
  (/\ Returned /\ Bound
   /\ DOMAIN StartTable[mStart] \cap DOMAIN GoalTable[mGoal] = {}
   /\ DOMAIN GoalTable[mGoal] # {})
  => (ret = "false" /\ mPlan = <<>>)

\* C3: whenever plan() returns failure, by a configuration error or by an
\* exhausted search, and whatever earlier calls returned, the plan is empty.
C3_FailureLeavesEmptyPlan ==
  (pc = "idle" /\ lastCall = "plan" /\ ret = "false") => mPlan = <<>>

CandidatesOf(c, entry) ==
  LET ac == ActionNamed(entry.ac)
      bs == Bindings(ac.nparams, mObjects)
  IN {<<entry.ac, entry.pref, bs[k]>> :
        k \in {k \in DOMAIN bs : PostMatch(c.state, ac, bs[k])}}

Candidates(c) ==
  LET acts == ActionSetTable[mActions]
  IN UNION {CandidatesOf(c, acts[i]) :
              i \in {k \in DOMAIN acts : acts[k].ac # NoAction}}

\* The predecessor state a candidate derives from c, and its F.
CandState(c, cand) == ApplyReverse(c.state, ActionNamed(cand[1]), cand[3])
CandF(c, cand) ==
  c.G + ActionNamed(cand[1]).cost * cand[2]
      + Comp(CandState(c, cand), StartTable[mStart])

\* The positions of the closed list whose nodes have been expanded: all of
\* them, but the node that ended the search.
Expanded ==
  IF mSuccess THEN 1..(Len(mClosedList) - 1) ELSE 1..Len(mClosedList)

\* The node e carries the action, binding, predecessor and F of a candidate
\* that derives its state.
CarriesOwnDerivation(e) ==
  /\ e.prev + 1 \in Expanded
  /\ \E cand \in Candidates(mClosedList[e.prev + 1]) :
       /\ cand[1] = e.ac /\ cand[3] = e.params
       /\ CandState(mClosedList[e.prev + 1], cand) = e.state
       /\ CandF(mClosedList[e.prev + 1], cand) = e.F

\* No candidate attempted so far derives the state of e with a lower F.
NoCheaperDerivation(e) ==
  \A k \in Expanded : \A cand \in Candidates(mClosedList[k]) :
     CandState(mClosedList[k], cand) = e.state
       => e.F <= CandF(mClosedList[k], cand)

\* C5: during a search, the frontier holds one entry for a state; the entry
\* has the lowest F of all the candidates that derived the state and carries
\* the action, binding and predecessor of a derivation with that F, in
\* whichever order the candidates were attempted; so does every node of the
\* closed list, from which the plan is read.
C5_CheapestDerivationKept ==
  (pc \in {"updating", "finalising"}) =>
    /\ \A i, j \in DOMAIN mOpenList :
         i # j => mOpenList[i].state # mOpenList[j].state
    /\ \A i \in DOMAIN mOpenList :
         mOpenList[i].ac # NoAction =>
           /\ CarriesOwnDerivation(mOpenList[i])
           /\ NoCheaperDerivation(mOpenList[i])
    /\ \A i \in DOMAIN mClosedList :
         mClosedList[i].ac # NoAction =>
           /\ CarriesOwnDerivation(mClosedList[i])
           /\ NoCheaperDerivation(mClosedList[i])

\* C5's case: two candidates of different cost derived the state of a
\* frontier entry from the same node, the dearer one first, and the entry
\* carries the cheaper one.
C5_Witness ==
  /\ pc = "updating" /\ inplace > 0
  /\ \E i \in DOMAIN mOpenList :
       \E c1, c2 \in Candidates(mClosedList[mOpenList[i].prev + 1]) :
          /\ CandState(mClosedList[mOpenList[i].prev + 1], c1) = mOpenList[i].state
          /\ CandState(mClosedList[mOpenList[i].prev + 1], c2) = mOpenList[i].state
          /\ CandF(mClosedList[mOpenList[i].prev + 1], c1)
               < CandF(mClosedList[mOpenList[i].prev + 1], c2)
          /\ mOpenList[i].ac = c1[1]
          /\ mOpenList[i].F = CandF(mClosedList[mOpenList[i].prev + 1], c1)

\* The actions of the bound action set (null entries left out).
BoundActions ==
  LET acts == ActionSetTable[mActions]
  IN {ActionNamed(acts[i].ac) : i \in {k \in DOMAIN acts : acts[k].ac # NoAction}}

\* Under binding b, the action has exactly one clause on the fact f, and it
\* has the condition equals p and the effect set e.
OnlyClauseOn(ac, b, f, p, e) ==
  /\ Cardinality({i \in DOMAIN ac.ops : ClauseKey(ac.ops[i], b) = f}) = 1
  /\ \A i \in DOMAIN ac.ops :
       ClauseKey(ac.ops[i], b) = f =>
         /\ ClauseOp(ac.ops[i], b).ctype = "Equals"
         /\ ClauseOp(ac.ops[i], b).cval = p
         /\ ClauseOp(ac.ops[i], b).etype = "Set"
         /\ ClauseOp(ac.ops[i], b).eval = e

\* Scenario 1: start = {f = p}, goal = {f = e}, p # e, and the one action ac,
\* of cost 1, whose only clause on f (under one of the bindings tried)
\* requires p and sets e.
Scenario1(ac) ==
  /\ Bound
  /\ BoundActions = {ac}
  /\ ac.cost = 1
  /\ \A i \in DOMAIN ActionSetTable[mActions] : ActionSetTable[mActions][i].pref = 1
  /\ \E f \in DOMAIN StartTable[mStart] :
       /\ DOMAIN StartTable[mStart] = {f}
       /\ DOMAIN GoalTable[mGoal] = {f}
       /\ StartTable[mStart][f] # GoalTable[mGoal][f]
       /\ \E k \in DOMAIN Bindings(ac.nparams, mObjects) :
            OnlyClauseOn(ac, Bindings(ac.nparams, mObjects)[k], f,
                         StartTable[mStart][f], GoalTable[mGoal][f])

\* C6: in scenario 1, plan() returns success and the plan is the one entry
\* of that action.
C6_SingleStepPlan ==
  \A ac \in Catalogue :
    (Returned /\ Scenario1(ac)) =>
      (ret = "true" /\ Len(mPlan) = 1 /\ mPlan[1].ac = ac.name)

\* C6's case: plan() has returned in scenario 1.
C6_Witness ==
  \E ac \in Catalogue :
    Returned /\ Scenario1(ac) /\ ac.nparams > 0 /\ Len(mPlan) = 1

\* Some fact of the goal is absent from the start or has another value there.
NonTrivialGoal ==
  \E f \in DOMAIN GoalTable[mGoal] :
     ~Has(StartTable[mStart], f) \/ StartTable[mStart][f] # GoalTable[mGoal][f]

\* C7: with no action, or with no object and parametrized actions only, and
\* a non-trivial goal, plan() returns failure and leaves the plan empty.
C7_NothingToPlanWithFails ==
  (/\ Returned /\ Bound /\ NonTrivialGoal
   /\ \/ BoundActions = {}
      \/ mObjects = <<>> /\ \A ac \in BoundActions : ac.nparams > 0)
  => (ret = "false" /\ mPlan = <<>>)

\* C8: no two entries of the explored set hold equal states.
C8_ExploredStatesDistinct ==
  \A i, j \in DOMAIN mClosedList :
     i # j => mClosedList[i].state # mClosedList[j].state

\* C8's case: the explored set holds several nodes, and a candidate of the
\* last expansion derived the state of one of them.
C8_Witness ==
  /\ Len(mClosedList) >= 2 /\ ~mSuccess /\ mOpenList # <<>>
  /\ \E cand \in Candidates(mClosedList[Len(mClosedList)]) :
       \E i \in DOMAIN mClosedList :
          CandState(mClosedList[Len(mClosedList)], cand) = mClosedList[i].state

\* C9: the node an update pops (the one it appends to the closed list) has F
\* less than or equal to the F of every entry of the frontier it is popped
\* from.
C9_PopsMinimumF ==
  [][Len(mClosedList') = Len(mClosedList) + 1 =>
       \A i \in DOMAIN mOpenList :
          mClosedList'[Len(mClosedList')].F <= mOpenList[i].F]_vars

\* C9's case: after pushes and an overwrite in place, a node was popped from
\* a frontier that held an entry of higher F, which is still there.
C9_Witness ==
  /\ inplace > 0 /\ Len(mClosedList) >= 2 /\ lastCall = "update"
  /\ \E i \in DOMAIN mOpenList :
       mClosedList[Len(mClosedList)].F < mOpenList[i].F

\* Every clause of the action has an effect and no condition.
EffectOnly(ac) ==
  \A i \in DOMAIN ac.ops :
     ac.ops[i].op.ctype = "NoCondition" /\ ac.ops[i].op.etype # "NoEffect"

\* C10: for an action whose clauses are all effect-only, applyReverse
\* followed by applyForward with the same binding gives the original state.
C10_RoundTrip ==
  (fout.done /\ EffectOnly(fin.ac)) => fout.roundtrip = fin.ws


\* The facts mapped by both states, and those of them whose values differ.
Shared(a, b) == (DOMAIN a) \cap (DOMAIN b)
Differing(a, b) == {f \in Shared(a, b) : a[f] # b[f]}

\* C11: compStart(A, B) is the number of facts present in both states with
\* different values; so it is 0 exactly when every fact present in both has
\* the same value in both, and the facts present in one state only do not
\* count.
C11_CompStartCountsSharedDifferences ==
  fout.done =>
    /\ fout.score = Cardinality(Differing(fin.a, fin.b))
    /\ (fout.score = 0 <=> \A f \in Shared(fin.a, fin.b) : fin.a[f] = fin.b[f])

\* Both states have a fact of their own, and they differ on the fact they
\* share.
C11_Witness ==
  /\ fout.done
  /\ (DOMAIN fin.a) \ (DOMAIN fin.b) # {}
  /\ (DOMAIN fin.b) \ (DOMAIN fin.a) # {}
  /\ fout.score = 1


\* A pointer nobody bound: null, or never assigned.
Unbound(ptr) == ptr = NULL \/ ptr = Wild
SomeUnbound == Unbound(mStart) \/ Unbound(mGoal) \/ Unbound(mActions)

\* The step is a call of initSlicedPlan that returned, or a call of plan()
\* that got past (or returned from) initSlicedPlan.
InitStep == lastCall' = "init" /\ nsets' = nsets /\ pc = "idle" /\ pc' = "idle"
PlanStep == lastCall' = "plan" /\ nsets' = nsets /\ pc = "idle" /\ pc' # "crashed"

\* C12: init returns failure exactly when start, goal or action set is
\* unbound, whatever the constants pointer is; a failed init leaves the
\* frontier, the explored set and the success flag as they were; and plan()
\* then returns failure without running an update.
C12_InitFailsExactlyWhenUnbound ==
  [][/\ InitStep =>
          /\ (ret' = "false") <=> SomeUnbound
          /\ ret' = "false" => UNCHANGED <<mOpenList, mClosedList, mSuccess>>
     /\ (PlanStep /\ SomeUnbound) =>
          /\ ret' = "false" /\ pc' = "idle"
          /\ UNCHANGED <<mOpenList, mClosedList, mSuccess>>]_vars

\* C13: whatever the sliced calls made before, and however they ended, an
\* init with start, goal and action set bound leaves the frontier with the
\* one node of the goal state, G = 0 and ID = 0, the explored set empty and
\* the success flag false.
C13_InitResets ==
  [][(InitStep /\ ~SomeUnbound) =>
       /\ ret' = "true"
       /\ Len(mOpenList') = 1
       /\ mOpenList'[1].state = GoalTable[mGoal]
       /\ mOpenList'[1].G = 0
       /\ mOpenList'[1].ID = 0
       /\ mClosedList' = <<>>
       /\ mSuccess' = FALSE]_vars

\* An init has succeeded on a Planner that holds the plan of an earlier,
\* successful search (the success flag was set when init was called).
C13_Witness ==
  /\ lastCall = "init" /\ ret = "true" /\ ~SomeUnbound
  /\ mPlan # <<>> /\ mPlan[1].ac # "garbage"
  /\ Len(mOpenList) = 1 /\ mClosedList = <<>> /\ ~mSuccess


\* A condition on a present value v with target t, as the claims read it.
Holds(v, cond, t) ==
  CASE cond = "IsUnset"      -> FALSE
    [] cond = "Equals"       -> v = t
    [] cond = "NotEqual"     -> v # t
    [] cond = "Less"         -> v < t
    [] cond = "Greater"      -> v > t
    [] cond = "LessEqual"    -> v <= t
    [] cond = "GreaterEqual" -> v >= t
    [] OTHER                 -> TRUE

\* The clauses of the input's action, and clause i under the input's binding.
InClauses == DOMAIN fin.ac.ops
InOp(i) == ClauseOp(fin.ac.ops[i], fin.params)
InKey(i) == ClauseKey(fin.ac.ops[i], fin.params)

\* C14: preMatch is true exactly when the special conditions accept the
\* binding and every clause with a condition is consistent with the state:
\* a missing fact only with IsUnset, a present fact never with IsUnset, and
\* a present value v with Equals, NotEqual, Less, Greater, LessEqual and
\* GreaterEqual t exactly when v = t, v # t, v < t, v > t, v <= t, v >= t.
C14_PreMatch ==
  fout.done =>
    (fout.pre <=>
       /\ CheckSpecialConditions(fin.ac, fin.params)
       /\ \A i \in InClauses :
            InOp(i).ctype # "NoCondition" =>
              IF Has(fin.ws, InKey(i))
              THEN Holds(fin.ws[InKey(i)], InOp(i).ctype, InOp(i).cval)
              ELSE InOp(i).ctype = "IsUnset")


\* Clause i is tested by postMatch: its fact is mapped and it has an effect,
\* or a condition.  It is consistent when the value passes the test of the
\* effect, or of the condition when it has no effect.
Tested(i) ==
  /\ Has(fin.ws, InKey(i))
  /\ InOp(i).etype # "NoEffect" \/ InOp(i).ctype # "NoCondition"
ClauseConsistent(i) ==
  /\ Tested(i)
  /\ IF InOp(i).etype # "NoEffect"
     THEN ConsistentEff(fin.ws[InKey(i)], InOp(i).etype, InOp(i).eval)
     ELSE ConsistentCond(fin.ws[InKey(i)], InOp(i).ctype, InOp(i).cval)

\* C15 as stated: when the special conditions accept the binding, postMatch
\* accepts exactly when at least one clause is consistent with the state;
\* an inconsistent clause does not reject the action when another clause is
\* consistent.
C15_AnyClauseAccepts ==
  (fout.done /\ CheckSpecialConditions(fin.ac, fin.params)) =>
    (fout.post <=> \E i \in InClauses : ClauseConsistent(i))

\* C15 as amended: postMatch accepts exactly when the special conditions
\* accept the binding, at least one clause is consistent with the state and
\* no clause whose fact is mapped is inconsistent: one inconsistent clause
\* rejects the action.
C15_NoClauseInconsistent ==
  fout.done =>
    (fout.post <=>
       /\ CheckSpecialConditions(fin.ac, fin.params)
       /\ \E i \in InClauses : ClauseConsistent(i)
       /\ \A i \in InClauses : Tested(i) => ClauseConsistent(i))

\* An action one clause of which is consistent and another is not, and
\* postMatch has rejected it.
C15_Witness ==
  /\ fout.done /\ ~fout.post
  /\ CheckSpecialConditions(fin.ac, fin.params)
  /\ \E i, j \in InClauses :
       ClauseConsistent(i) /\ Tested(j) /\ ~ClauseConsistent(j)


\* The indices (from 0) of the explored entries on the predecessor chain
\* from entry i down to, and without, the root; the chain is cut where a
\* predecessor is not a smaller index.
RECURSIVE ChainFrom(_, _)
ChainFrom(closed, i) ==
  IF i = 0 THEN <<>>
  ELSE IF closed[i + 1].prev < i
       THEN <<i>> \o ChainFrom(closed, closed[i + 1].prev)
       ELSE <<i, -1>>

\* The step is a call of finaliseSlicedPlan that returned, made right after
\* an update that signalled stop on a search that has succeeded.
FinaliseStep == lastCall' = "finalise" /\ pc = "idle" /\ pc' = "idle"
StoppedWithSuccess ==
  lastCall = "update" /\ ret = "false" /\ mSuccess /\ mClosedList # <<>>

\* C16: after a search in which update signalled stop with success,
\* finalise yields as plan the (action, binding) pairs of the nodes on the
\* predecessor chain from the last explored node down to, and without, the
\* root at index 0, in that order; every predecessor on the chain is an
\* explored entry at a strictly smaller index; and the frontier and the
\* explored set are left empty.
C16_PlanIsPredecessorChain ==
  [][(FinaliseStep /\ StoppedWithSuccess) =>
       LET chain == ChainFrom(mClosedList, Len(mClosedList) - 1)
       IN /\ \A k \in DOMAIN chain : chain[k] > 0
          /\ Len(mPlan') = Len(chain)
          /\ \A k \in DOMAIN chain :
               /\ mPlan'[k].ac = mClosedList[chain[k] + 1].ac
               /\ mPlan'[k].params = mClosedList[chain[k] + 1].params
          /\ mOpenList' = <<>>
          /\ mClosedList' = <<>>]_vars

\* A plan of two steps was finalised after a search that gave out more IDs
\* than the root's and the two steps'.
C16_Witness ==
  /\ lastCall = "finalise" /\ pc = "idle" /\ mSuccess
  /\ Len(mPlan) = 2 /\ mId > 3
  /\ mOpenList = <<>> /\ mClosedList = <<>>


\* The objects of the input's pool, and the cross product of the pool over
\* k slots.
PoolObjects == {fin.objects[i] : i \in DOMAIN fin.objects}
CrossProduct(k) == [1..k -> PoolObjects]

\* C17: for an action of k >= 1 parameters and a pool of n >= 1 objects the
\* bindings tried are the n^k tuples of the pool's cross product over the k
\* slots, each once and every slot an object of the pool, for every k; with
\* no parameters or an empty pool the one binding tried is the empty one.
C17_BindingsAreCrossProduct ==
  fout.done =>
    /\ ~fout.crashed
    /\ IF fin.nparams >= 1 /\ Len(fin.objects) >= 1
       THEN /\ Len(fout.params) = Len(fin.objects) ^ fin.nparams
            /\ {fout.params[i] : i \in DOMAIN fout.params}
                 = CrossProduct(fin.nparams)
            /\ \A i, j \in DOMAIN fout.params :
                 i # j => fout.params[i] # fout.params[j]
       ELSE fout.params = << <<>> >>


\* The step is a call of updateSlicedPlan that returned.
UpdateStep == lastCall' = "update" /\ pc = "idle" /\ pc' = "idle"

\* The IDs of the nodes of the two lists, in one sequence.
NodeIds(open, closed) ==
  [i \in 1..(Len(open) + Len(closed)) |->
     IF i <= Len(open) THEN open[i].ID ELSE closed[i - Len(open)].ID]

PairwiseDistinct(seq) == \A i, j \in DOMAIN seq : i # j => seq[i] # seq[j]

\* C18: a candidate whose state an entry of the frontier already holds adds
\* no entry and takes no fresh ID (one update gives out as many IDs as it
\* adds nodes); the entry keeps its ID and state, whether its scores, action,
\* binding and predecessor are overwritten or not; so the IDs of the nodes
\* of the frontier and the explored set stay pairwise distinct.
C18_InPlaceUpdateKeepsIdentity ==
  [][UpdateStep =>
       /\ mId' - mId = (Len(mOpenList') + Len(mClosedList'))
                        - (Len(mOpenList) + Len(mClosedList))
       /\ \A i \in DOMAIN mOpenList : \A j \in DOMAIN mOpenList' :
            mOpenList[i].state = mOpenList'[j].state
              => mOpenList[i].ID = mOpenList'[j].ID
       /\ PairwiseDistinct(NodeIds(mOpenList', mClosedList'))]_vars


\* Clause i of the input's action has an effect and no condition, its fact
\* is mapped and postMatch's test of the effect passes.
EffectPasses(i) ==
  /\ InOp(i).ctype = "NoCondition" /\ InOp(i).etype # "NoEffect"
  /\ Has(fin.ws, InKey(i))
  /\ ConsistentEff(fin.ws[InKey(i)], InOp(i).etype, InOp(i).eval)

\* C19: for a clause with an effect and no condition whose fact has the
\* value v and passes postMatch's test of the effect, applyReverse gives a
\* predecessor from which the effect applied forward yields v again: the
\* fact is unset in it for Set, holds v - 1 for Increment and v + 1 for
\* Decrement.
C19_ReverseAgreesWithEffectTest ==
  fout.done =>
    \A i \in InClauses :
      EffectPasses(i) =>
        LET f   == InKey(i)
            v   == fin.ws[f]
            r   == fout.reversed
            fwd == ForwardClause(r, fin.ac.ops[i], fin.params)
        IN /\ InOp(i).etype = "Set" => ~Has(r, f)
           /\ InOp(i).etype = "Increment" => Has(r, f) /\ r[f] = v - 1
           /\ InOp(i).etype = "Decrement" => Has(r, f) /\ r[f] = v + 1
           /\ Has(fwd, f) /\ fwd[f] = v


\* The step is a call of finaliseSlicedPlan, however it ends.
FinaliseCall == lastCall' = "finalise" /\ pc = "idle"

\* C20: every finalise reads the explored set at indices that exist only;
\* a finalise called again after a successful search was finalised, with no
\* init in between, reads no entry and leaves an empty plan.
C20_FinaliseReadsInside ==
  [][FinaliseCall =>
       /\ mSuccess =>
            /\ mClosedList # <<>>
            /\ \A k \in DOMAIN ChainFrom(mClosedList, Len(mClosedList) - 1) :
                 ChainFrom(mClosedList, Len(mClosedList) - 1)[k]
                   \in 0..(Len(mClosedList) - 1)
       /\ lastCall = "finalise" => mPlan' = <<>>
       /\ pc' # "crashed"]_vars


\* C21: plan()'s loop terminates: after a successful init, update returns
\* stop after finitely many calls, the search having succeeded or the
\* frontier being empty.
C21_PlanLoopTerminates ==
  (pc = "updating") ~> (pc = "finalising" /\ (mSuccess \/ mOpenList = <<>>))

\* The loop has ended on an empty frontier, and an action of the set leads
\* from an explored state back to an explored state: a predecessor that was
\* derived and not explored again.
C21_Witness ==
  /\ pc = "finalising" /\ ~mSuccess /\ mOpenList = <<>>
  /\ \E i \in DOMAIN mClosedList : \E e \in DOMAIN ActionSetTable[mActions] :
       LET entry == ActionSetTable[mActions][e]
           st    == mClosedList[i].state
       IN /\ entry.ac # NoAction
          /\ ActionNamed(entry.ac).nparams = 0
          /\ PostMatch(st, ActionNamed(entry.ac), <<>>)
          /\ \E j \in DOMAIN mClosedList :
               mClosedList[j].state = ApplyReverse(st, ActionNamed(entry.ac), <<>>)

\* The states held by the entries of the frontier followed by those of the
\* explored set.
HeldStates ==
  [i \in 1..(Len(mOpenList) + Len(mClosedList)) |->
     (mOpenList \o mClosedList)[i].state]

\* C22: after any sequence of init, update and finalise calls the states held
\* by the entries of the frontier and of the explored set, taken together,
\* are pairwise distinct: no two frontier entries hold equal states, and no
\* frontier entry holds the state of an explored entry.
C22_FrontierAndExploredDistinct == PairwiseDistinct(HeldStates)

\* C22's case: the frontier holds several entries beside a non-empty explored
\* set, and the node expanded last derived the state of one frontier entry
\* twice, by two candidates, and the state of an explored entry as well.
C22_Witness ==
  /\ Len(mOpenList) >= 2 /\ mClosedList # <<>> /\ ~mSuccess
  /\ LET c == mClosedList[Len(mClosedList)]
     IN /\ \E c1, c2 \in Candidates(c) : \E i \in DOMAIN mOpenList :
             /\ c1 # c2
             /\ CandState(c, c1) = mOpenList[i].state
             /\ CandState(c, c2) = mOpenList[i].state
        /\ \E c3 \in Candidates(c) : \E j \in DOMAIN mClosedList :
             CandState(c, c3) = mClosedList[j].state

=============================================================================
